---- MODULE Spec2Model ----
(***************************************************************************)
(* Change propagation over an aggregation hierarchy                        *)
(* (crates/turbo-tasks-memory/src/aggregation/change.rs).                  *)
(*                                                                         *)
(* Threads call the top-level apply_change / apply_change_ref with a guard *)
(* on an origin node.  One prepare step runs under that guard, the guard   *)
(* is dropped, and the prepared value is applied: every queued upper is    *)
(* locked, changed and unlocked in turn, and what those steps prepared is  *)
(* applied recursively.                                                    *)
(***************************************************************************)
EXTENDS Integers, Sequences, FiniteSets, Bags, TLC

\* ------------------------------------------------------------------ bounds
\* Total number of propagations started in one behaviour.
MaxProps == 2
\* Number of structural mutations (upper link added or removed) in one behaviour.
MaxMutations == 2
\* Length of the sequences of changes applied serially to one node.
MaxChanges == 3
\* Number of comparisons of calling styles in one behaviour.
MaxCompares == 2
\* Number of tasks passed to resolve_tasks.
MaxTasks == 3
\* The count of prepareCallHierarchy requests sent for one task saturates here.
MaxSent == 7
\* `if count > 5`
RetryLimit == 5

\* ------------------------------------------------------------------ universe
Threads == {"t1", "t2"}
Nodes == {"L1", "L2", "A", "B", "C", "D", "R"}
Leaves == {"L1", "L2"}
\* Nodes a caller starts a propagation from.
Origins == {"L1", "L2", "A", "R"}
\* DataChange values of the integer-counter fixtures.
Changes == {1, -1}
\* The top-level entry point each thread calls: apply_change takes the change
\* owned, apply_change_ref borrowed.
EntryForm == [t1 |-> "owned", t2 |-> "ref"]
\* Merge functions an AggregationContext may supply.
Rules == {"add", "first", "flag"}

\* Option<T> is a sequence of length at most one.
None == <<>>
Some(x) == <<x>>
IsSome(o) == Len(o) = 1
Unwrap(o) == o[1]

NoUppers == [n \in Nodes |-> {}]
WithUppers(f) == [n \in Nodes |-> IF n \in DOMAIN f THEN f[n] ELSE {}]

\* Hierarchies (upper links), all acyclic.  L1 and L2 are leaves, the other
\* nodes are aggregating.
Chain == WithUppers([L1 |-> {"A"}, A |-> {"R"}])
Fan == WithUppers([L1 |-> {"A", "B"}, L2 |-> {"B", "A"}])
Diamond == WithUppers([L1 |-> {"A", "B"}, L2 |-> {"B"}, A |-> {"R"}, B |-> {"R"}])
Uneven == WithUppers([L1 |-> {"A", "B"}, A |-> {"C"}, C |-> {"D"}, B |-> {"R"}])
Hierarchies == {Chain, Fan, Diamond, Uneven}

\* Every order in which the elements of a set can be iterated.
Orders(S) == {s \in [1..Cardinality(S) -> S] : \A i, j \in 1..Cardinality(S) : s[i] = s[j] => i = j}

\* ------------------------------------------------------------------ state
VARIABLES
    kind,       \* node -> "Leaf" | "Aggegating"
    uppers,     \* node -> set of upper NodeRefs
    data,       \* aggregating node -> Data (integer counter)
    rule,       \* the merge function of the context
    pc,         \* thread -> position in the top-level entry point
    held,       \* thread -> set of nodes whose guard the thread holds
    arg,        \* thread -> [node, change] of its current call
    p,          \* thread -> Option<PreparedChange>, the local p of the entry point
    stack,      \* thread -> call stack of PreparedOperation::apply frames
    log,        \* thread -> the node visits of its current propagation, in order
    hist,       \* bag of the <<origin, change>> of the propagations started so far
    overlap,    \* some propagation started while another was running
    mutations   \* structural mutations applied so far

\* The state of the task resolver (crates/turbo-static/src/main.rs,
\* resolve_tasks) and of a caller of CallingStyle::partial_cmp
\* (crates/turbo-static/src/visitor.rs).
VARIABLES
    tasks,      \* the keys of the tasks passed to resolve_tasks, in input order
    reindex,    \* the reindex flag
    items,      \* the "links" partition: key -> stored data
    disk,       \* the "links" partition as of the last fjall.persist()
    out,        \* the map resolve_tasks returns: key -> data
    pos,        \* position of the for loop in tasks
    count,      \* the retry counter of the prepareCallHierarchy loop
    response,   \* what the prepareCallHierarchy loop broke with, if it has
    sent,       \* prepareCallHierarchy requests sent for the current task
    queried,    \* the keys of the tasks a request was sent for
    rpc,        \* position in resolve_tasks
    cmp         \* the comparisons made so far: <<self, other, result>>

staticVars == <<tasks, reindex, items, disk, out, pos, count, response, sent, queried, rpc, cmp>>
aggVars == <<kind, uppers, data, rule, pc, held, arg, p, stack, log, hist, overlap, mutations>>

vars == <<kind, uppers, data, rule, pc, held, arg, p, stack, log, hist, overlap, mutations,
          tasks, reindex, items, disk, out, pos, count, response, sent, queried, rpc, cmp>>

\* resolve_tasks has not been called and nothing has been compared.
StaticOff ==
    /\ tasks = <<>>
    /\ reindex = FALSE
    /\ items = <<>>
    /\ disk = <<>>
    /\ out = <<>>
    /\ pos = 1
    /\ count = 0
    /\ response = None
    /\ sent = 0
    /\ queried = {}
    /\ rpc = "off"
    /\ cmp = <<>>

\* ------------------------------------------------------------------ context
\* AggregationContext::apply_change: merges change into data, returns the
\* delta to forward.
\*   add:   data += change; forwards the change.
\*   first: data += change; forwards the change only when data goes from 0 to
\*          non-zero.
\*   flag:  data += change; forwards +1 when data becomes non-zero and -1 when
\*          it becomes zero.
CtxApplyChange(r, d, change) ==
    LET nd == d + change IN
    [data |-> nd,
     ret |-> CASE r = "add" -> Some(change)
               [] r = "first" -> IF d = 0 /\ nd # 0 THEN Some(change) ELSE None
               [] r = "flag" -> IF d = 0 /\ nd # 0 THEN Some(1)
                                ELSE IF d # 0 /\ nd = 0 THEN Some(-1)
                                ELSE None]

\* ------------------------------------------------------------------ prepare
\* NodeApplyChange with uppers.iter().next() in place of the whole set: only
\* the first upper is queued.
NodeApplyChangeFirstUpper(r, k, ups, ord, d, change) ==
    IF k = "Leaf"
    THEN [data |-> d, merged |-> FALSE, ret |-> None,
          out |-> IF ups # {}
                  THEN Some([tag |-> "PreparedChange", uppers |-> <<ord[1]>>, change |-> change])
                  ELSE None]
    ELSE LET m == CtxApplyChange(r, d, change) IN
         [data |-> m.data, merged |-> TRUE, ret |-> m.ret,
          out |-> IF ups = {} THEN None
                  ELSE IF IsSome(m.ret)
                  THEN Some([tag |-> "PreparedChange", uppers |-> <<ord[1]>>, change |-> Unwrap(m.ret)])
                  ELSE None]

\* NodeApplyChange without the uppers.is_empty() test of the aggregating arm:
\* a delta returned by the merge is always queued, for no upper if need be.
NodeApplyChangeNoEmptyTest(r, k, ups, ord, d, change) ==
    IF k = "Leaf"
    THEN [data |-> d, merged |-> FALSE, ret |-> None,
          out |-> IF ups # {}
                  THEN Some([tag |-> "PreparedChange", uppers |-> ord, change |-> change])
                  ELSE None]
    ELSE LET m == CtxApplyChange(r, d, change) IN
         [data |-> m.data, merged |-> TRUE, ret |-> m.ret,
          out |-> IF IsSome(m.ret)
                  THEN Some([tag |-> "PreparedChange", uppers |-> ord, change |-> Unwrap(m.ret)])
                  ELSE None]

\* NodeApplyChange without the shadowing of change by the result of the merge:
\* an aggregating node whose merge returned a delta forwards the incoming
\* change instead of the delta.
NodeApplyChangeIncoming(r, k, ups, ord, d, change) ==
    IF k = "Leaf"
    THEN [data |-> d, merged |-> FALSE, ret |-> None,
          out |-> IF ups # {}
                  THEN Some([tag |-> "PreparedChange", uppers |-> ord, change |-> change])
                  ELSE None]
    ELSE LET m == CtxApplyChange(r, d, change) IN
         [data |-> m.data, merged |-> TRUE, ret |-> m.ret,
          out |-> IF ups = {} THEN None
                  ELSE IF IsSome(m.ret)
                  THEN Some([tag |-> "PreparedChange", uppers |-> ord, change |-> change])
                  ELSE None]

\* NodeApplyChange with the uppers.is_empty() test moved in front of the
\* merge: an aggregating node without uppers returns early, unmerged.
NodeApplyChangeSkipRoot(r, k, ups, ord, d, change) ==
    IF k = "Leaf"
    THEN [data |-> d, merged |-> FALSE, ret |-> None,
          out |-> IF ups # {}
                  THEN Some([tag |-> "PreparedChange", uppers |-> ord, change |-> change])
                  ELSE None]
    ELSE IF ups = {}
    THEN [data |-> d, merged |-> FALSE, ret |-> None, out |-> None]
    ELSE LET m == CtxApplyChange(r, d, change) IN
         [data |-> m.data, merged |-> TRUE, ret |-> m.ret,
          out |-> IF IsSome(m.ret)
                  THEN Some([tag |-> "PreparedChange", uppers |-> ord, change |-> Unwrap(m.ret)])
                  ELSE None]

\* AggregationNode::apply_change on a node of kind k with uppers set ups
\* (iterated in order ord) and data d.  Result: the new data, whether the
\* merge was invoked, what it returned, and the Option<PreparedChange>.
NodeApplyChange(r, k, ups, ord, d, change) ==
    IF k = "Leaf"
    THEN [data |-> d, merged |-> FALSE, ret |-> None,
          out |-> IF ups # {}
                  THEN Some([tag |-> "PreparedChange", uppers |-> ord, change |-> change])
                  ELSE None]
    ELSE LET m == CtxApplyChange(r, d, change) IN
         [data |-> m.data, merged |-> TRUE, ret |-> m.ret,
          out |-> IF ups = {} THEN None
                  ELSE IF IsSome(m.ret)
                  THEN Some([tag |-> "PreparedChange", uppers |-> ord, change |-> Unwrap(m.ret)])
                  ELSE None]

\* NodeApplyChangeRef with the delta defaulted to the incoming change
\* (change.unwrap_or(incoming)): a merge that returns nothing still forwards.
NodeApplyChangeRefForward(r, k, ups, ord, d, change) ==
    IF k = "Leaf"
    THEN [data |-> d, merged |-> FALSE, ret |-> None,
          out |-> IF ups # {}
                  THEN Some([tag |-> "Borrowed", uppers |-> ord, change |-> change])
                  ELSE None]
    ELSE LET m == CtxApplyChange(r, d, change) IN
         [data |-> m.data, merged |-> TRUE, ret |-> m.ret,
          out |-> IF ups = {} THEN None
                  ELSE Some([tag |-> "Owned", uppers |-> ord,
                             change |-> IF IsSome(m.ret) THEN Unwrap(m.ret) ELSE change])]

\* NodeApplyChangeRef with the uppers.is_empty() test moved in front of the
\* merge: a node without uppers returns early and is not merged.
NodeApplyChangeRefSkipRoot(r, k, ups, ord, d, change) ==
    IF k = "Leaf"
    THEN [data |-> d, merged |-> FALSE, ret |-> None,
          out |-> IF ups # {}
                  THEN Some([tag |-> "Borrowed", uppers |-> ord, change |-> change])
                  ELSE None]
    ELSE IF ups = {}
    THEN [data |-> d, merged |-> FALSE, ret |-> None, out |-> None]
    ELSE LET m == CtxApplyChange(r, d, change) IN
         [data |-> m.data, merged |-> TRUE, ret |-> m.ret,
          out |-> IF IsSome(m.ret)
                  THEN Some([tag |-> "Owned", uppers |-> ord, change |-> Unwrap(m.ret)])
                  ELSE None]

\* NodeApplyChangeRef without the !uppers.is_empty() test of the leaf arm: a
\* leaf always prepares, for no upper if need be.
NodeApplyChangeRefNoEmptyTest(r, k, ups, ord, d, change) ==
    IF k = "Leaf"
    THEN [data |-> d, merged |-> FALSE, ret |-> None,
          out |-> Some([tag |-> "Borrowed", uppers |-> ord, change |-> change])]
    ELSE LET m == CtxApplyChange(r, d, change) IN
         [data |-> m.data, merged |-> TRUE, ret |-> m.ret,
          out |-> IF ups = {} THEN None
                  ELSE IF IsSome(m.ret)
                  THEN Some([tag |-> "Owned", uppers |-> ord, change |-> Unwrap(m.ret)])
                  ELSE None]

\* NodeApplyChangeRef with the merge invoked in the leaf arm as well: a leaf
\* gets Data of its own.
NodeApplyChangeRefLeafMerge(r, k, ups, ord, d, change) ==
    IF k = "Leaf"
    THEN [data |-> CtxApplyChange(r, d, change).data, merged |-> FALSE, ret |-> None,
          out |-> IF ups # {}
                  THEN Some([tag |-> "Borrowed", uppers |-> ord, change |-> change])
                  ELSE None]
    ELSE LET m == CtxApplyChange(r, d, change) IN
         [data |-> m.data, merged |-> TRUE, ret |-> m.ret,
          out |-> IF ups = {} THEN None
                  ELSE IF IsSome(m.ret)
                  THEN Some([tag |-> "Owned", uppers |-> ord, change |-> Unwrap(m.ret)])
                  ELSE None]

\* NodeApplyChangeRef with the incoming change queued in the aggregating arm
\* in place of the delta the merge returned.
NodeApplyChangeRefIncoming(r, k, ups, ord, d, change) ==
    IF k = "Leaf"
    THEN [data |-> d, merged |-> FALSE, ret |-> None,
          out |-> IF ups # {}
                  THEN Some([tag |-> "Borrowed", uppers |-> ord, change |-> change])
                  ELSE None]
    ELSE LET m == CtxApplyChange(r, d, change) IN
         [data |-> m.data, merged |-> TRUE, ret |-> m.ret,
          out |-> IF ups = {} THEN None
                  ELSE IF IsSome(m.ret)
                  THEN Some([tag |-> "Owned", uppers |-> ord, change |-> change])
                  ELSE None]

\* AggregationNode::apply_change_ref: the same on a borrowed change; a leaf
\* passes the borrow on, an aggregating node owns the delta of its merge.
NodeApplyChangeRef(r, k, ups, ord, d, change) ==
    IF k = "Leaf"
    THEN [data |-> d, merged |-> FALSE, ret |-> None,
          out |-> IF ups # {}
                  THEN Some([tag |-> "Borrowed", uppers |-> ord, change |-> change])
                  ELSE None]
    ELSE LET m == CtxApplyChange(r, d, change) IN
         [data |-> m.data, merged |-> TRUE, ret |-> m.ret,
          out |-> IF ups = {} THEN None
                  ELSE IF IsSome(m.ret)
                  THEN Some([tag |-> "Owned", uppers |-> ord, change |-> Unwrap(m.ret)])
                  ELSE None]

\* ------------------------------------------------------------------ helpers
Locked(n) == \E t \in Threads : n \in held[t]
Running(t) == pc[t] \notin {"idle", "done"}

\* One visit of a node, as recorded in the log of the visiting thread.
\*   in: the incoming change;  snap: the uppers set the visit observed;
\*   depth: upper links from the origin;  parent: log index of the visit that
\*   queued this one (0 for the origin);  call: the apply call that made it;
\*   live: the uppers set of the queuing node at the time of this visit.
Visit(n, change, res, snap, depth, parent, call, live) ==
    [node |-> n, in |-> change, merged |-> res.merged, ret |-> res.ret,
     queued |-> IsSome(res.out), snap |-> snap, depth |-> depth,
     parent |-> parent, call |-> call, live |-> live]

\* A frame of PreparedChange::apply / PreparedChangeRef::apply.
\*   todo: uppers still to visit;  prepared: what the visits so far returned;
\*   holding: the guard of Head(todo) is held.
Frame(item, depth, parent, call) ==
    [tag |-> item.tag, todo |-> item.uppers, change |-> item.change,
     prepared |-> <<>>, holding |-> FALSE,
     depth |-> depth, parent |-> parent, call |-> call]

Top(t) == stack[t][Len(stack[t])]
SetTop(t, f) == [stack EXCEPT ![t] = [@ EXCEPT ![Len(@)] = f]]

\* PreparedOperation::apply for the collected StackVec and the return from
\* apply, run up to the next lookup of an upper: a frame whose uppers are all
\* visited applies its collected items in order, each by a nested call that
\* runs to completion, and returns when none is left.  call numbers the
\* nested calls.
RECURSIVE Settle(_, _)
Settle(stk, call) ==
    IF stk = <<>>
    THEN stk
    ELSE LET f == stk[Len(stk)] IN
         IF f.todo # <<>>
         THEN stk
         ELSE IF f.prepared # <<>>
         THEN LET q == Head(f.prepared) IN
              Settle(Append([stk EXCEPT ![Len(stk)].prepared = Tail(@)],
                            Frame(q.item, q.depth, q.parent, call)),
                     call + 1)
         ELSE Settle(SubSeq(stk, 1, Len(stk) - 1), call)

\* ------------------------------------------------------------------ init
Init ==
    /\ kind = [n \in Nodes |-> IF n \in Leaves THEN "Leaf" ELSE "Aggegating"]
    /\ uppers \in Hierarchies
    /\ data = [n \in Nodes |-> 0]
    /\ rule \in Rules
    /\ pc = [t \in Threads |-> "idle"]
    /\ held = [t \in Threads |-> {}]
    /\ arg = [t \in Threads |-> [node |-> "L1", change |-> 1]]
    /\ p = [t \in Threads |-> None]
    /\ stack = [t \in Threads |-> <<>>]
    /\ log = [t \in Threads |-> <<>>]
    /\ hist = EmptyBag
    /\ overlap = FALSE
    /\ mutations = 0
    /\ StaticOff

\* ------------------------------------------------------------------ entry
\* The caller resolves the origin through the context (ctx.node) and calls a
\* top-level entry point with the guard and a change.
Lock(t, n, c) ==
    /\ pc[t] \in {"idle", "done"}
    /\ BagCardinality(hist) < MaxProps
    /\ ~Locked(n)
    /\ held' = [held EXCEPT ![t] = @ \cup {n}]
    /\ arg' = [arg EXCEPT ![t] = [node |-> n, change |-> c]]
    /\ pc' = [pc EXCEPT ![t] = "entry"]
    /\ p' = [p EXCEPT ![t] = None]
    /\ log' = [log EXCEPT ![t] = <<>>]
    /\ hist' = hist (+) SetToBag({<<n, c>>})
    /\ overlap' = (overlap \/ \E u \in Threads \ {t} : Running(u))
    /\ UNCHANGED <<kind, uppers, data, rule, stack, mutations>>
    /\ UNCHANGED staticVars

\* let p = node.apply_change(ctx, change);   (or apply_change_ref)
TopPrepare(t) ==
    /\ pc[t] = "entry"
    /\ LET n == arg[t].node IN
       \E ord \in Orders(uppers[n]) :
          LET res == IF EntryForm[t] = "owned"
                     THEN NodeApplyChange(rule, kind[n], uppers[n], ord, data[n], arg[t].change)
                     ELSE NodeApplyChangeRef(rule, kind[n], uppers[n], ord, data[n], arg[t].change)
          IN /\ data' = [data EXCEPT ![n] = res.data]
             /\ p' = [p EXCEPT ![t] = res.out]
             /\ log' = [log EXCEPT ![t] = <<Visit(n, arg[t].change, res, uppers[n], 0, 0, 0, {})>>]
    /\ pc' = [pc EXCEPT ![t] = "drop"]
    /\ UNCHANGED <<kind, uppers, rule, held, arg, stack, hist, overlap, mutations>>
    /\ UNCHANGED staticVars

\* TopDrop with drop(node) moved behind p.apply(ctx): the origin guard is
\* still held while the uppers are visited.
TopDropLate(t) ==
    /\ pc[t] = "drop"
    /\ held' = held
    /\ LET stk == IF IsSome(p[t]) THEN Settle(<<Frame(Unwrap(p[t]), 1, 1, 1)>>, 2) ELSE <<>>
       IN /\ stack' = [stack EXCEPT ![t] = stk]
          /\ pc' = [pc EXCEPT ![t] = IF stk = <<>> THEN "done" ELSE "run"]
    /\ UNCHANGED <<kind, uppers, data, rule, arg, p, log, hist, overlap, mutations>>
    /\ UNCHANGED staticVars

\* drop(node); p.apply(ctx);   Option<T>::apply applies the prepared value if
\* there is one: its apply starts with the uppers of p still to visit.
TopDrop(t) ==
    /\ pc[t] = "drop"
    /\ held' = [held EXCEPT ![t] = @ \ {arg[t].node}]
    /\ LET stk == IF IsSome(p[t]) THEN Settle(<<Frame(Unwrap(p[t]), 1, 1, 1)>>, 2) ELSE <<>>
       IN /\ stack' = [stack EXCEPT ![t] = stk]
          /\ pc' = [pc EXCEPT ![t] = IF stk = <<>> THEN "done" ELSE "run"]
    /\ UNCHANGED <<kind, uppers, data, rule, arg, p, log, hist, overlap, mutations>>
    /\ UNCHANGED staticVars

\* ------------------------------------------------------------------ apply
\* Acquire with a visited set: an upper this propagation has visited already
\* is passed over, so that every node is merged once per propagation.
AcquireOnce(t) ==
    /\ pc[t] = "run"
    /\ LET f == Top(t) IN
       /\ f.todo # <<>>
       /\ ~f.holding
       /\ IF \A i \in 1..Len(log[t]) : log[t][i].node # Head(f.todo)
          THEN /\ ~Locked(Head(f.todo))
               /\ held' = [held EXCEPT ![t] = @ \cup {Head(f.todo)}]
               /\ stack' = SetTop(t, [f EXCEPT !.holding = TRUE])
               /\ pc' = pc
          ELSE LET stk == Settle([stack[t] EXCEPT ![Len(stack[t])].todo = Tail(@)], f.call + 1)
               IN /\ held' = held
                  /\ stack' = [stack EXCEPT ![t] = stk]
                  /\ pc' = [pc EXCEPT ![t] = IF stk = <<>> THEN "done" ELSE "run"]
    /\ UNCHANGED <<kind, uppers, data, rule, arg, p, log, hist, overlap, mutations>>
    /\ UNCHANGED staticVars

\* Acquire reading the uppers of the forwarding node again instead of the
\* collected ids: an upper whose link is gone by now is passed over.
AcquireLive(t) ==
    /\ pc[t] = "run"
    /\ LET f == Top(t) IN
       /\ f.todo # <<>>
       /\ ~f.holding
       /\ IF Head(f.todo) \in uppers[log[t][f.parent].node]
          THEN /\ ~Locked(Head(f.todo))
               /\ held' = [held EXCEPT ![t] = @ \cup {Head(f.todo)}]
               /\ stack' = SetTop(t, [f EXCEPT !.holding = TRUE])
               /\ pc' = pc
          ELSE LET stk == Settle([stack[t] EXCEPT ![Len(stack[t])].todo = Tail(@)], f.call + 1)
               IN /\ held' = held
                  /\ stack' = [stack EXCEPT ![t] = stk]
                  /\ pc' = [pc EXCEPT ![t] = IF stk = <<>> THEN "done" ELSE "run"]
    /\ UNCHANGED <<kind, uppers, data, rule, arg, p, log, hist, overlap, mutations>>
    /\ UNCHANGED staticVars

\* ctx.node(&upper_id): blocks until the guard of the next upper is free.
Acquire(t) ==
    /\ pc[t] = "run"
    /\ LET f == Top(t) IN
       /\ f.todo # <<>>
       /\ ~f.holding
       /\ ~Locked(Head(f.todo))
       /\ held' = [held EXCEPT ![t] = @ \cup {Head(f.todo)}]
       /\ stack' = SetTop(t, [f EXCEPT !.holding = TRUE])
    /\ UNCHANGED <<kind, uppers, data, rule, pc, arg, p, log, hist, overlap, mutations>>
    /\ UNCHANGED staticVars

\* ApplyRef with the guards of the visited uppers kept alive (collected with
\* the prepared values) instead of dropped after each visit.
ApplyRefKeepGuard(t) ==
    /\ pc[t] = "run"
    /\ LET f == Top(t)
           n == Head(f.todo)
       IN /\ f.todo # <<>>
          /\ f.holding
          /\ \E ord \in Orders(uppers[n]) :
               LET res == NodeApplyChangeRef(rule, kind[n], uppers[n], ord, data[n], f.change)
                   idx == Len(log[t]) + 1
                   new == IF IsSome(res.out)
                          THEN <<[item |-> Unwrap(res.out), depth |-> f.depth + 1, parent |-> idx]>>
                          ELSE <<>>
                   g == [f EXCEPT !.todo = Tail(@), !.holding = FALSE, !.prepared = @ \o new]
                   stk == Settle([stack[t] EXCEPT ![Len(stack[t])] = g], f.call + 1)
               IN /\ data' = [data EXCEPT ![n] = res.data]
                  /\ log' = [log EXCEPT ![t] =
                                Append(@, Visit(n, f.change, res, uppers[n], f.depth, f.parent, f.call,
                                                 uppers[log[t][f.parent].node]))]
                  /\ stack' = [stack EXCEPT ![t] = stk]
                  /\ pc' = [pc EXCEPT ![t] = IF stk = <<>> THEN "done" ELSE "run"]
          /\ held' = held
    /\ UNCHANGED <<kind, uppers, rule, arg, p, hist, overlap, mutations>>
    /\ UNCHANGED staticVars

\* ApplyRef with find_map in place of filter_map: the iteration over the
\* uppers stops at the first upper that prepared something.
ApplyRefFindMap(t) ==
    /\ pc[t] = "run"
    /\ LET f == Top(t)
           n == Head(f.todo)
       IN /\ f.todo # <<>>
          /\ f.holding
          /\ \E ord \in Orders(uppers[n]) :
               LET res == NodeApplyChangeRef(rule, kind[n], uppers[n], ord, data[n], f.change)
                   idx == Len(log[t]) + 1
                   new == IF IsSome(res.out)
                          THEN <<[item |-> Unwrap(res.out), depth |-> f.depth + 1, parent |-> idx]>>
                          ELSE <<>>
                   g == [f EXCEPT !.todo = IF new = <<>> THEN Tail(@) ELSE <<>>,
                                  !.holding = FALSE, !.prepared = @ \o new]
                   stk == Settle([stack[t] EXCEPT ![Len(stack[t])] = g], f.call + 1)
               IN /\ data' = [data EXCEPT ![n] = res.data]
                  /\ log' = [log EXCEPT ![t] =
                                Append(@, Visit(n, f.change, res, uppers[n], f.depth, f.parent, f.call,
                                                 uppers[log[t][f.parent].node]))]
                  /\ stack' = [stack EXCEPT ![t] = stk]
                  /\ pc' = [pc EXCEPT ![t] = IF stk = <<>> THEN "done" ELSE "run"]
          /\ held' = [held EXCEPT ![t] = @ \ {n}]
    /\ UNCHANGED <<kind, uppers, rule, arg, p, hist, overlap, mutations>>
    /\ UNCHANGED staticVars

\* ApplyRef with the prepared value applied inside the closure, as soon as the
\* upper returned it, instead of collected and applied after the last upper.
ApplyRefEager(t) ==
    /\ pc[t] = "run"
    /\ LET f == Top(t)
           n == Head(f.todo)
       IN /\ f.todo # <<>>
          /\ f.holding
          /\ \E ord \in Orders(uppers[n]) :
               LET res == NodeApplyChangeRef(rule, kind[n], uppers[n], ord, data[n], f.change)
                   idx == Len(log[t]) + 1
                   g == [f EXCEPT !.todo = Tail(@), !.holding = FALSE]
                   below == [stack[t] EXCEPT ![Len(stack[t])] = g]
                   stk == IF IsSome(res.out)
                          THEN Settle(Append(below, Frame(Unwrap(res.out), f.depth + 1, idx, idx)),
                                      idx + 1)
                          ELSE Settle(below, idx + 1)
               IN /\ data' = [data EXCEPT ![n] = res.data]
                  /\ log' = [log EXCEPT ![t] =
                                Append(@, Visit(n, f.change, res, uppers[n], f.depth, f.parent, f.call,
                                                 uppers[log[t][f.parent].node]))]
                  /\ stack' = [stack EXCEPT ![t] = stk]
                  /\ pc' = [pc EXCEPT ![t] = IF stk = <<>> THEN "done" ELSE "run"]
          /\ held' = [held EXCEPT ![t] = @ \ {n}]
    /\ UNCHANGED <<kind, uppers, rule, arg, p, hist, overlap, mutations>>
    /\ UNCHANGED staticVars

\* .apply_change_ref(ctx, change) on the locked upper; filter_map keeps what
\* it prepared.  The guard is a temporary of the closure: it is dropped when
\* the closure returns, before the next upper is looked up.  After the last
\* upper the collected items are applied.
ApplyRef(t) ==
    /\ pc[t] = "run"
    /\ LET f == Top(t)
           n == Head(f.todo)
       IN /\ f.todo # <<>>
          /\ f.holding
          /\ \E ord \in Orders(uppers[n]) :
               LET res == NodeApplyChangeRef(rule, kind[n], uppers[n], ord, data[n], f.change)
                   idx == Len(log[t]) + 1
                   new == IF IsSome(res.out)
                          THEN <<[item |-> Unwrap(res.out), depth |-> f.depth + 1, parent |-> idx]>>
                          ELSE <<>>
                   g == [f EXCEPT !.todo = Tail(@), !.holding = FALSE, !.prepared = @ \o new]
                   stk == Settle([stack[t] EXCEPT ![Len(stack[t])] = g], f.call + 1)
               IN /\ data' = [data EXCEPT ![n] = res.data]
                  /\ log' = [log EXCEPT ![t] =
                                Append(@, Visit(n, f.change, res, uppers[n], f.depth, f.parent, f.call,
                                                 uppers[log[t][f.parent].node]))]
                  /\ stack' = [stack EXCEPT ![t] = stk]
                  /\ pc' = [pc EXCEPT ![t] = IF stk = <<>> THEN "done" ELSE "run"]
          /\ held' = [held EXCEPT ![t] = @ \ {n}]
    /\ UNCHANGED <<kind, uppers, rule, arg, p, hist, overlap, mutations>>
    /\ UNCHANGED staticVars

\* ------------------------------------------------------------------ spec
\* A step of a propagation that has started.
Progress(t) ==
    \/ TopPrepare(t)
    \/ TopDrop(t)
    \/ Acquire(t)
    \/ ApplyRef(t)

Start(t) == \E n \in Origins, c \in Changes : Lock(t, n, c)

Next == \E t \in Threads : Start(t) \/ Progress(t)

Spec == Init /\ [][Next]_vars

\* ------------------------------------------------------------------ structure
\* The hierarchy-maintenance component adds and removes upper links while
\* propagations run.  It follows the per-node lock discipline: a link of node
\* n changes only while no thread holds the guard of n.  Links go from a node
\* to an aggregating node of higher rank, which keeps the hierarchy acyclic.
Rank == [L1 |-> 0, L2 |-> 0, A |-> 1, B |-> 2, C |-> 3, D |-> 4, R |-> 5]
Mutable == {"L1", "A"}
NewUppers == {"B", "R"}

AddUpper(n, u) ==
    /\ mutations < MaxMutations
    /\ ~Locked(n)
    /\ u \notin uppers[n]
    /\ Rank[n] < Rank[u]
    /\ uppers' = [uppers EXCEPT ![n] = @ \cup {u}]
    /\ mutations' = mutations + 1
    /\ UNCHANGED <<kind, data, rule, pc, held, arg, p, stack, log, hist, overlap>>
    /\ UNCHANGED staticVars

RemoveUpper(n, u) ==
    /\ mutations < MaxMutations
    /\ ~Locked(n)
    /\ u \in uppers[n]
    /\ uppers' = [uppers EXCEPT ![n] = @ \ {u}]
    /\ mutations' = mutations + 1
    /\ UNCHANGED <<kind, data, rule, pc, held, arg, p, stack, log, hist, overlap>>
    /\ UNCHANGED staticVars

Mutate ==
    \E n \in Mutable :
        \/ \E u \in NewUppers : AddUpper(n, u)
        \/ \E u \in Nodes : RemoveUpper(n, u)

NextMut == Next \/ Mutate

\* Propagation over a hierarchy that changes meanwhile, from the chain.
MutInit == Init /\ uppers = Chain /\ rule = "add"
SpecMut == MutInit /\ [][NextMut]_vars

\* Propagation under the add merge over the hierarchy whose aggregating nodes
\* all have no uppers.
RootInit == Init /\ uppers = Fan /\ rule = "add"
SpecRoot == RootInit /\ [][Next]_vars

\* Threads are scheduled fairly: a thread whose next step stays possible
\* eventually takes it.  Checked on the chain and on the hierarchy with uppers
\* of different depth, with the merge that forwards on the first change only.
FairInit == Init /\ uppers \in {Chain, Uneven} /\ rule = "first"
FairSpec == FairInit /\ [][Next]_vars /\ \A t \in Threads : WF_vars(Progress(t))

\* ------------------------------------------------------------------ C1
\* C1: in every reachable state each thread holds the guard of at most one
\* node.  The origin guard is held from the call until the single prepare
\* step is over (one visit logged) and is gone before any upper is looked up;
\* in the apply phase a thread holds nothing between two uppers and exactly
\* the guard of the upper it is visiting otherwise.
C1_OneGuard ==
    \A t \in Threads :
        /\ Cardinality(held[t]) <= 1
        /\ pc[t] \in {"idle", "done"} => held[t] = {}
        /\ pc[t] = "entry" => held[t] = {arg[t].node} /\ log[t] = <<>>
        /\ pc[t] = "drop" => held[t] = {arg[t].node} /\ Len(log[t]) = 1
        /\ pc[t] = "run" =>
              held[t] = (IF Top(t).holding THEN {Head(Top(t).todo)} ELSE {})

\* A thread that has visited the uppers of the origin holds the guard of an
\* upper of the next level, and nothing else.
C1_Witness ==
    \E t \in Threads :
        /\ pc[t] = "run"
        /\ Top(t).holding
        /\ Top(t).depth = 2
        /\ Len(log[t]) >= 2
        /\ held[t] = {Head(Top(t).todo)}

\* ------------------------------------------------------------------ C2
\* A thread blocked in ctx.node: the guard it asks for is held.
Waiting(t) ==
    /\ pc[t] = "run"
    /\ ~Top(t).holding
    /\ Locked(Head(Top(t).todo))

\* A thread with an unfinished propagation that can take its next step.  The
\* lookup of an upper (Acquire) is the only step that can block; the prepare
\* step, the drop of a guard and the visit of a locked node need no guard that
\* the thread does not hold already.
CanStep(t) ==
    /\ Running(t)
    /\ (pc[t] = "run" /\ ~Top(t).holding) => ENABLED Acquire(t)

\* C2: no deadlock.  Whenever some propagation is unfinished, a thread with an
\* unfinished propagation can take a step, and a thread waiting for a guard
\* holds no guard itself.
C2_NoDeadlock ==
    /\ (\E t \in Threads : Running(t)) => (\E t \in Threads : CanStep(t))
    /\ \A t \in Threads : Waiting(t) => held[t] = {}

\* Two threads visit A and B in opposite orders: one has visited A and waits
\* for B, whose guard the other holds with A still to visit.
C2_Witness ==
    \E t, u \in Threads :
        /\ Waiting(t)
        /\ Top(t).todo = <<"B">>
        /\ \E i \in 1..Len(log[t]) : log[t][i].node = "A"
        /\ pc[u] = "run"
        /\ Top(u).todo = <<"B", "A">>
        /\ Top(u).holding

\* ------------------------------------------------------------------ C3
\* The apply phase of one propagation run alone, from call stack stk on data d,
\* with no other thread: the visits of the uppers in order, each followed by
\* what it prepared.
RECURSIVE SerialSteps(_, _)
SerialSteps(d, stk) ==
    IF stk = <<>>
    THEN d
    ELSE LET f == stk[Len(stk)]
             n == Head(f.todo)
             ord == CHOOSE o \in Orders(uppers[n]) : TRUE
             res == NodeApplyChangeRef(rule, kind[n], uppers[n], ord, d[n], f.change)
             new == IF IsSome(res.out)
                    THEN <<[item |-> Unwrap(res.out), depth |-> f.depth + 1, parent |-> 0]>>
                    ELSE <<>>
             g == [f EXCEPT !.todo = Tail(@), !.prepared = @ \o new]
         IN SerialSteps([d EXCEPT ![n] = res.data],
                        Settle([stk EXCEPT ![Len(stk)] = g], 0))

\* The Data of every node after the propagation of thread t (its origin, its
\* change, its entry point) has run alone on data d.
SerialRun(d, t) ==
    LET n == arg[t].node
        ord == CHOOSE o \in Orders(uppers[n]) : TRUE
        res == IF EntryForm[t] = "owned"
               THEN NodeApplyChange(rule, kind[n], uppers[n], ord, d[n], arg[t].change)
               ELSE NodeApplyChangeRef(rule, kind[n], uppers[n], ord, d[n], arg[t].change)
        d1 == [d EXCEPT ![n] = res.data]
    IN IF IsSome(res.out)
       THEN SerialSteps(d1, Settle(<<Frame(Unwrap(res.out), 1, 1, 1)>>, 2))
       ELSE d1

ZeroData == [n \in Nodes |-> 0]

\* Both threads have run one propagation each, and nothing else has run.
BothDone == pc["t1"] = "done" /\ pc["t2"] = "done" /\ BagCardinality(hist) = 2

\* C3: with the commutative merge (counter, signed-delta add) two propagations
\* run by two threads, in any interleaving, leave the Data of every node equal
\* to what the two leave when run one after the other, in either order.
C3_SerialEquivalent ==
    (BothDone /\ rule = "add") =>
        /\ data = SerialRun(SerialRun(ZeroData, "t1"), "t2")
        /\ data = SerialRun(SerialRun(ZeroData, "t2"), "t1")

\* c1 from leaf L1 and c2 from leaf L2 were propagated at the same time; both
\* reached the shared ancestor R (L1 by two paths).
C3_Witness ==
    /\ BothDone
    /\ rule = "add"
    /\ overlap
    /\ uppers = Diamond
    /\ \E t, u \in Threads :
          /\ arg[t].node = "L1"
          /\ arg[u].node = "L2"
          /\ data["R"] = 2 * arg[t].change + arg[u].change
          /\ data["B"] = arg[t].change + arg[u].change
          /\ \E i \in 1..Len(log[t]) : log[t][i].node = "R"
          /\ \E i \in 1..Len(log[u]) : log[u][i].node = "R"

\* ------------------------------------------------------------------ C4
\* The log indexes of the visits queued by visit j of thread t.
Children(t, j) == {i \in 1..Len(log[t]) : log[t][i].parent = j}

\* Visit q forwards: its node has uppers and is a leaf or its merge returned a
\* delta.
Forwards(q) == q.snap # {} /\ (q.merged => IsSome(q.ret))

\* Along every upward path the propagation of thread t goes on exactly through
\* the visits that forward: a visit is made only via a visit that forwards, to
\* a member of its uppers set and with what it forwards; once the propagation
\* is over, every upper of a visit that forwards has been visited via it, once.
StopsAtFirst(t) ==
    /\ \A i \in 1..Len(log[t]) :
          LET e == log[t][i] IN
          IF i = 1
          THEN e.parent = 0 /\ e.node = arg[t].node
          ELSE /\ e.parent \in 1..(i - 1)
               /\ LET q == log[t][e.parent] IN
                  /\ Forwards(q)
                  /\ e.node \in q.snap
                  /\ e.depth = q.depth + 1
                  /\ e.in = (IF q.merged THEN Unwrap(q.ret) ELSE q.in)
    /\ \A j \in 1..Len(log[t]) :
          /\ ~Forwards(log[t][j]) => Children(t, j) = {}
          /\ (pc[t] = "done" /\ Forwards(log[t][j])) =>
                \A u \in log[t][j].snap :
                    Cardinality({i \in Children(t, j) : log[t][i].node = u}) = 1

\* C4: on a finite acyclic hierarchy every propagation that has started
\* eventually finishes, under fair scheduling, and along each upward path it
\* stops exactly at the first aggregating node that has no uppers or whose
\* merge returns no delta.
C4_Terminates ==
    /\ \A t \in Threads : (pc[t] = "entry") ~> (pc[t] = "done")
    /\ [](\A t \in Threads : StopsAtFirst(t))

\* Two propagations from L1 are over.  One went up to D, three levels above
\* the origin, and stopped there because D has no uppers although its merge
\* returned a delta; the other stopped at A and at B, which have uppers,
\* because their merges returned no delta.
C4_Witness ==
    /\ uppers = Uneven
    /\ \E t, u \in Threads :
          /\ pc[t] = "done"
          /\ pc[u] = "done"
          /\ \E i \in 1..Len(log[t]) :
                /\ log[t][i].node = "D"
                /\ log[t][i].depth = 3
                /\ IsSome(log[t][i].ret)
                /\ Children(t, i) = {}
          /\ Len(log[u]) = 3
          /\ \A i \in 2..3 :
                /\ log[u][i].node \in {"A", "B"}
                /\ log[u][i].snap # {}
                /\ log[u][i].merged
                /\ log[u][i].ret = None

\* ------------------------------------------------------------------ C5
\* No propagation is in progress.
Quiescent == \A t \in Threads : ~Running(t)

\* The merge of node n was invoked in the current propagation of thread t.
MergedAt(t, n) == \E i \in 1..Len(log[t]) : log[t][i].node = n /\ log[t][i].merged

\* +1 propagated from leaf L1 once, resp. twice, and nothing else.
PlusOneOnce == (<<"L1", 1>> :> 1)
PlusOneTwice == (<<"L1", 1>> :> 2)

\* C5: in the chain L1 -> A -> R with all Data 0 and the merge that forwards
\* only when data goes from 0 to non-zero, +1 from the leaf gives A = 1 and
\* R = 1, and +1 from the leaf a second time gives A = 2 and R = 1: only one
\* of the two propagations merges R.
C5_Chain ==
    (uppers = Chain /\ rule = "first" /\ Quiescent) =>
        /\ hist = PlusOneOnce => data["A"] = 1 /\ data["R"] = 1
        /\ hist = PlusOneTwice =>
              /\ data["A"] = 2
              /\ data["R"] = 1
              /\ IF \A t \in Threads : pc[t] = "done"
                 THEN Cardinality({t \in Threads : MergedAt(t, "R")}) = 1
                 ELSE \A t \in Threads : ~MergedAt(t, "R")

\* One thread has propagated +1 from L1 twice, one after the other; the second
\* propagation merged A and stopped there.
C5_Witness ==
    /\ uppers = Chain
    /\ rule = "first"
    /\ hist = PlusOneTwice
    /\ pc["t1"] = "done"
    /\ pc["t2"] = "idle"
    /\ Len(log["t1"]) = 2
    /\ MergedAt("t1", "A")
    /\ data["A"] = 2
    /\ data["R"] = 1

\* ------------------------------------------------------------------ C6
\* Thread t has finished a propagation from a leaf whose uppers set is {A, B}.
FanOutDone(t) ==
    /\ pc[t] = "done"
    /\ kind[arg[t].node] = "Leaf"
    /\ log[t][1].snap = {"A", "B"}

\* The number of merges of node n in the current propagation of thread t.
MergeCount(t, n) ==
    Cardinality({i \in 1..Len(log[t]) : log[t][i].node = n /\ log[t][i].merged})

\* C6 as claimed: propagating c from a leaf whose uppers set is {A, B} invokes
\* the merge of A once and the merge of B once, each with c, and the merge of
\* no other node.
C6_Original ==
    \A t \in Threads :
        FanOutDone(t) =>
            /\ MergeCount(t, "A") = 1
            /\ MergeCount(t, "B") = 1
            /\ \A i \in 1..Len(log[t]) :
                  log[t][i].merged =>
                      log[t][i].node \in {"A", "B"} /\ log[t][i].in = arg[t].change

\* C6 as amended: propagating c from a leaf whose uppers set is {A, B} invokes
\* the merge of A and the merge of B once each as the uppers of the leaf, each
\* with c itself; no other node is merged when neither A nor B forwards (no
\* uppers, or a merge that returns no delta), and the uppers of a forwarding
\* A or B are merged as well otherwise.
C6_FanOut ==
    \A t \in Threads :
        FanOutDone(t) =>
            /\ ~log[t][1].merged
            /\ \A n \in {"A", "B"} :
                  \E i \in Children(t, 1) :
                      /\ log[t][i].node = n
                      /\ log[t][i].merged
                      /\ log[t][i].in = arg[t].change
                      /\ \A j \in Children(t, 1) : log[t][j].node = n => j = i
            /\ \A i \in Children(t, 1) : log[t][i].node \in {"A", "B"}
            /\ \A i \in 2..Len(log[t]) : log[t][i].depth = 1 <=> i \in Children(t, 1)
            /\ (\A i \in Children(t, 1) : ~Forwards(log[t][i])) => Len(log[t]) = 3
            /\ \A i \in Children(t, 1) :
                  Forwards(log[t][i]) =>
                      {log[t][j].node : j \in Children(t, i)} = log[t][i].snap

\* c went from the leaf to A and to B, which have no uppers: both were merged
\* with c and nothing else was visited, although both merges returned a delta.
C6_Witness ==
    \E t \in Threads :
        /\ FanOutDone(t)
        /\ uppers = Fan
        /\ rule = "add"
        /\ BagCardinality(hist) = 1
        /\ Len(log[t]) = 3
        /\ data["A"] = arg[t].change
        /\ data["B"] = arg[t].change
        /\ IsSome(log[t][2].ret)
        /\ IsSome(log[t][3].ret)

\* ------------------------------------------------------------------ C7
\* C7: an aggregating node with an empty uppers set merges the incoming change
\* into its own Data, once, and prepares nothing, also when the merge returns a
\* delta: no visit is queued by it.  As the origin it ends the propagation: the
\* entry point has nothing to apply, and with no other propagation started the
\* Data of the node is the change and every other Data is untouched.
C7_Root ==
    \A t \in Threads : \A i \in 1..Len(log[t]) :
        LET e == log[t][i] IN
        (kind[e.node] = "Aggegating" /\ e.snap = {}) =>
            /\ e.merged
            /\ ~e.queued
            /\ Children(t, i) = {}
            /\ i = 1 =>
                  /\ pc[t] \in {"drop", "done"}
                  /\ p[t] = None
                  /\ stack[t] = <<>>
                  /\ Len(log[t]) = 1
                  /\ BagCardinality(hist) = 1 => data = [ZeroData EXCEPT ![e.node] = e.in]

\* A propagation that started at the root R is over: R was merged, the merge
\* returned a delta, nothing was prepared and no other node was touched.
C7_Witness ==
    \E t \in Threads :
        /\ pc[t] = "done"
        /\ arg[t].node = "R"
        /\ uppers["R"] = {}
        /\ BagCardinality(hist) = 1
        /\ Len(log[t]) = 1
        /\ log[t][1].merged
        /\ IsSome(log[t][1].ret)
        /\ ~log[t][1].queued
        /\ data = [ZeroData EXCEPT !["R"] = arg[t].change]

\* ------------------------------------------------------------------ C8
\* Thread t has run the prepare step of a propagation from a leaf whose uppers
\* set is empty.
EmptyLeafPrepared(t) ==
    /\ pc[t] \in {"drop", "run", "done"}
    /\ kind[arg[t].node] = "Leaf"
    /\ log[t][1].snap = {}

\* C8: propagating a change from a leaf whose uppers set is empty prepares
\* nothing, invokes no merge, looks up no other node (the only guard the
\* thread ever holds is the one of the leaf, no apply call is made), ends
\* without a fault at the drop of the guard, and, no other propagation being
\* started, leaves the Data of every node as it was.
C8_EmptyLeaf ==
    \A t \in Threads :
        EmptyLeafPrepared(t) =>
            /\ p[t] = None
            /\ pc[t] # "run"
            /\ stack[t] = <<>>
            /\ Len(log[t]) = 1
            /\ ~log[t][1].merged
            /\ ~log[t][1].queued
            /\ held[t] = (IF pc[t] = "drop" THEN {arg[t].node} ELSE {})
            /\ pc[t] = "drop" => ENABLED TopDrop(t)
            /\ BagCardinality(hist) = 1 => data = ZeroData

\* A propagation from the leaf L2, which has no uppers, is over and nothing
\* has changed.
C8_Witness ==
    \E t \in Threads :
        /\ pc[t] = "done"
        /\ arg[t].node = "L2"
        /\ uppers["L2"] = {}
        /\ EmptyLeafPrepared(t)
        /\ BagCardinality(hist) = 1
        /\ data = ZeroData
        /\ held[t] = {}

\* ------------------------------------------------------------------ C9
\* C9: the uppers that receive a node's forwarded change are exactly the
\* members of the uppers set its prepare step observed.  At any time every
\* visit made for a forwarding visit i is of a member of the set visit i
\* observed, and of each member at most once; when the propagation is done
\* every member has been visited.  An upper linked after the prepare step is
\* therefore not merged, and an upper unlinked after it still is.
VisitedFor(t, i) == {j \in 1..Len(log[t]) : log[t][j].parent = i}

C9_Snapshot ==
    \A t \in Threads :
        \A i \in 1..Len(log[t]) :
            /\ \A j \in VisitedFor(t, i) :
                  /\ log[t][i].queued
                  /\ log[t][j].node \in log[t][i].snap
                  /\ \A k \in VisitedFor(t, i) : log[t][k].node = log[t][j].node => k = j
            /\ (pc[t] = "done" /\ log[t][i].queued) =>
                  {log[t][j].node : j \in VisitedFor(t, i)} = log[t][i].snap

\* A finished propagation during which, between the prepare step of a node
\* and the visit of one of its uppers, that upper was unlinked from the node
\* and another one was linked to it.
C9_Witness ==
    \E t \in Threads :
        /\ pc[t] = "done"
        /\ \E i \in 1..Len(log[t]) :
              \E j \in VisitedFor(t, i) :
                 /\ log[t][j].node \notin log[t][j].live
                 /\ log[t][j].merged
                 /\ \E u \in log[t][j].live \ log[t][i].snap :
                       \A k \in VisitedFor(t, i) : log[t][k].node # u

\* ------------------------------------------------------------------ C10
\* C10 as claimed: within one propagation every node at distance d from the
\* origin is merged before any node at distance d + 1.
C10_LevelByLevel ==
    \A t \in Threads : \A i, j \in 1..Len(log[t]) :
        i < j => log[t][i].depth <= log[t][j].depth

\* The visits queued by visit a of thread t, and the visits those queued.
Below(t, a) == Children(t, a) \cup UNION {Children(t, i) : i \in Children(t, a)}

\* C10 as amended: the apply phase is depth-first over the prepared items.  One
\* apply call visits all uppers of its item, one after the other, before any
\* node queued by those visits is visited, so the nodes at distance 1 come
\* before every node further up; the prepared items are then applied one at a
\* time, each to completion: what one upper queued, and what that queued in
\* turn, is visited without anything another upper of the same item queued in
\* between, whatever the distances.
C10_DepthFirst ==
    \A t \in Threads :
        LET n == Len(log[t]) IN
        /\ \A i, j \in 1..n : (i < j /\ log[t][j].depth <= 1) => log[t][i].depth <= 1
        /\ \A i, j \in 2..n :
              /\ log[t][i].call = log[t][j].call <=> log[t][i].parent = log[t][j].parent
              /\ log[t][i].call = log[t][j].call =>
                    \A k \in i..j : log[t][k].call = log[t][i].call
        /\ \A a, b \in 2..n :
              (a # b /\ log[t][a].call = log[t][b].call) =>
                  \/ \A x \in Below(t, a), y \in Below(t, b) : x < y
                  \/ \A x \in Below(t, a), y \in Below(t, b) : y < x

\* In the hierarchy L1 -> {A, B}, A -> C -> D, B -> R a propagation from L1 is
\* over that visited A, B, then C and D through A, and only then R through B:
\* D, at distance 3, before R, at distance 2.
C10_Witness ==
    \E t \in Threads :
        /\ pc[t] = "done"
        /\ uppers = Uneven
        /\ Len(log[t]) = 6
        /\ [i \in 1..6 |-> log[t][i].node] = <<"L1", "A", "B", "C", "D", "R">>
        /\ [i \in 1..6 |-> log[t][i].depth] = <<0, 1, 1, 2, 3, 2>>

\* ------------------------------------------------------------------ C11
\* The bag of the elements of a sequence.
BagOf(seq) ==
    [x \in {seq[i] : i \in DOMAIN seq} |-> Cardinality({i \in DOMAIN seq : seq[i] = x})]

\* The merges of the current propagation of thread t: <<node, change>> of
\* every visit that invoked the merge.
MergesOf(t) ==
    BagOf(SelectSeq([i \in 1..Len(log[t]) |->
                        IF log[t][i].merged THEN <<log[t][i].node, log[t][i].in>> ELSE <<>>],
                    LAMBDA x : x # <<>>))

\* The apply phase run alone from call stack stk on data d, keeping the merges
\* it invokes in m.
RECURSIVE AloneSteps(_, _, _)
AloneSteps(d, stk, m) ==
    IF stk = <<>>
    THEN [data |-> d, merges |-> m]
    ELSE LET f == stk[Len(stk)]
             n == Head(f.todo)
             ord == CHOOSE o \in Orders(uppers[n]) : TRUE
             res == NodeApplyChangeRef(rule, kind[n], uppers[n], ord, d[n], f.change)
             new == IF IsSome(res.out)
                    THEN <<[item |-> Unwrap(res.out), depth |-> f.depth + 1, parent |-> 0]>>
                    ELSE <<>>
             g == [f EXCEPT !.todo = Tail(@), !.prepared = @ \o new]
         IN AloneSteps([d EXCEPT ![n] = res.data],
                       Settle([stk EXCEPT ![Len(stk)] = g], 0),
                       IF res.merged THEN Append(m, <<n, f.change>>) ELSE m)

\* The top-level entry point of the given form ("owned": apply_change, "ref":
\* apply_change_ref) called alone with origin n and change c on data d: the
\* Data it leaves and the merges it invokes.
RunAlone(form, n, c, d) ==
    LET ord == CHOOSE o \in Orders(uppers[n]) : TRUE
        res == IF form = "owned"
               THEN NodeApplyChange(rule, kind[n], uppers[n], ord, d[n], c)
               ELSE NodeApplyChangeRef(rule, kind[n], uppers[n], ord, d[n], c)
        d1 == [d EXCEPT ![n] = res.data]
        m1 == IF res.merged THEN <<<<n, c>>>> ELSE <<>>
    IN IF IsSome(res.out)
       THEN AloneSteps(d1, Settle(<<Frame(Unwrap(res.out), 1, 1, 1)>>, 2), m1)
       ELSE [data |-> d1, merges |-> m1]

OtherForm(form) == IF form = "owned" THEN "ref" ELSE "owned"

\* Thread t has finished a propagation and the other thread has never run:
\* every propagation so far was run by t, one after the other.
RanAlone(t) == pc[t] = "done" /\ \A u \in Threads \ {t} : pc[u] = "idle"

\* The orders in which thread t may have run its earlier propagations: the
\* sequences of the <<origin, change>> started so far less the current one.
EarlierRuns(t) ==
    LET cur == <<arg[t].node, arg[t].change>>
        k == BagCardinality(hist) - 1
    IN {s \in [1..k -> DOMAIN hist] :
           \A x \in DOMAIN hist :
               Cardinality({i \in 1..k : s[i] = x}) = hist[x] - (IF x = cur THEN 1 ELSE 0)}

\* The Data left by the propagations of seq run alone through the given form,
\* one after the other, on data d.
RECURSIVE RunSeq(_, _, _)
RunSeq(form, seq, d) ==
    IF seq = <<>>
    THEN d
    ELSE RunSeq(form, Tail(seq), RunAlone(form, Head(seq)[1], Head(seq)[2], d).data)

\* C11: the owned entry form (apply_change) and the borrowed entry form
\* (apply_change_ref) are equivalent.  A propagation run alone by a thread
\* through its entry form invokes the merges and leaves the Data that the
\* other entry form gives for the same origin and change on the same Data and
\* hierarchy (the Data the thread's earlier propagations left, run in one of
\* the orders the started propagations allow); and when the two threads, one of each form, have propagated the
\* same change from the same origin one after the other under the add merge,
\* both have invoked the same merges with the same changes.
C11_EntryFormsEquivalent ==
    /\ \A t \in Threads :
          RanAlone(t) =>
              \E s \in EarlierRuns(t) :
                  LET other == RunAlone(OtherForm(EntryForm[t]), arg[t].node, arg[t].change,
                                        RunSeq(EntryForm[t], s, ZeroData))
                  IN /\ data = other.data
                     /\ MergesOf(t) = BagOf(other.merges)
    /\ (/\ pc["t1"] = "done" /\ pc["t2"] = "done"
        /\ arg["t1"] = arg["t2"] /\ rule = "add"
        /\ BagCardinality(hist) = 2) =>
           MergesOf("t1") = MergesOf("t2")

\* Both forms were run from L1 in the diamond, one after the other, with the
\* same change: each merged A, B and R twice.
C11_Witness ==
    /\ pc["t1"] = "done"
    /\ pc["t2"] = "done"
    /\ ~overlap
    /\ uppers = Diamond
    /\ rule = "add"
    /\ arg["t1"] = arg["t2"]
    /\ arg["t1"].node = "L1"
    /\ Len(log["t1"]) = 5
    /\ Len(log["t2"]) = 5
    /\ data["R"] = 4 * arg["t1"].change

\* ------------------------------------------------------------------ C12
\* The nodes of S and every node above them.
RECURSIVE UpClosure(_)
UpClosure(S) ==
    LET T == S \cup UNION {uppers[n] : n \in S}
    IN IF T = S THEN S ELSE UpClosure(T)

\* The origins of the propagations started so far.
StartedOrigins == {x[1] : x \in BagToSet(hist)}

\* C12: propagation never changes the structure of the hierarchy.  No step
\* changes the set of nodes, the variant of a node or the uppers set of a
\* node; a step changes the Data of at most one node, an aggregating node on
\* or above the origin of the thread taking the step, whose guard that thread
\* holds.  At any time every leaf and every node that is not on or above the
\* origin of a started propagation has the Data it started with.
C12_Frame ==
    /\ [](\A n \in Nodes :
            (kind[n] = "Leaf" \/ n \notin UpClosure(StartedOrigins)) => data[n] = 0)
    /\ [][/\ DOMAIN kind' = DOMAIN kind
          /\ DOMAIN uppers' = DOMAIN uppers
          /\ DOMAIN data' = DOMAIN data
          /\ kind' = kind
          /\ uppers' = uppers
          /\ \A n \in Nodes :
                data'[n] # data[n] =>
                    /\ kind[n] = "Aggegating"
                    /\ \E t \in Threads : n \in held[t] /\ n \in UpClosure({arg[t].node})
                    /\ \A m \in Nodes \ {n} : data'[m] = data[m]]_vars

\* Two propagations from the leaf L2 of the diamond, run at the same time,
\* are over: B and R above it have new Data; L2, A beside the path and the
\* other nodes have not, and the hierarchy is the diamond still.
C12_Witness ==
    /\ pc["t1"] = "done"
    /\ pc["t2"] = "done"
    /\ overlap
    /\ uppers = Diamond
    /\ kind["L2"] = "Leaf"
    /\ arg["t1"].node = "L2"
    /\ arg["t2"].node = "L2"
    /\ data["B"] # 0
    /\ data["R"] # 0
    /\ \A n \in Nodes \ {"B", "R"} : data[n] = 0

\* ------------------------------------------------------------------ C13
\* The sequences of at most MaxChanges changes.
ChangeSeqs == UNION {[1..k -> Changes] : k \in 0..MaxChanges}

RECURSIVE SumOf(_)
SumOf(seq) == IF seq = <<>> THEN 0 ELSE Head(seq) + SumOf(Tail(seq))

\* apply_change called with the changes of seq, one after the other, on an
\* aggregating node with no uppers whose Data is d, under the add merge: the
\* Data it ends with.
RECURSIVE FoldRoot(_, _)
FoldRoot(d, seq) ==
    IF seq = <<>>
    THEN d
    ELSE FoldRoot(NodeApplyChange("add", "Aggegating", {}, <<>>, d, Head(seq)).data, Tail(seq))

\* The sum of the changes of the propagations started so far.
SumOfHist == SumOf([i \in 1..BagCardinality(hist) |->
                      LET flat == UNION {{<<x, k>> : k \in 1..hist[x]} : x \in BagToSet(hist)}
                          pick == CHOOSE f \in [1..BagCardinality(hist) -> flat] :
                                      \A a, b \in 1..BagCardinality(hist) : f[a] = f[b] => a = b
                      IN pick[i][1][2]])

\* C13: for a node with no uppers and the add merge (integer counter, signed
\* delta) the Data after a finite multiset of changes applied serially is the
\* same for every order of application: from the Data the propagations so far
\* left in such a node, two sequences with the same bag of changes end with
\* the same Data, the Data before plus the sum of the
\* changes; and when every propagation so far started at the node, its Data
\* is the sum of their changes, in whatever order they ran.
C13_OrderIndependent ==
    (rule = "add" /\ Quiescent) =>
        \A n \in StartedOrigins :
            (kind[n] = "Aggegating" /\ uppers[n] = {}) =>
                /\ \A s1, s2 \in ChangeSeqs :
                      BagOf(s1) = BagOf(s2) => FoldRoot(data[n], s1) = FoldRoot(data[n], s2)
                /\ \A s1 \in ChangeSeqs : FoldRoot(data[n], s1) = data[n] + SumOf(s1)
                /\ StartedOrigins = {n} => data[n] = SumOfHist

\* +1 and -1 were both applied to the root R by two propagations: R is back at
\* 0, and each merge returned its delta with nothing to forward it to.
C13_Witness ==
    /\ rule = "add"
    /\ Quiescent
    /\ uppers["R"] = {}
    /\ hist = SetToBag({<<"R", 1>>, <<"R", -1>>})
    /\ data["R"] = 0
    /\ \A t \in Threads :
          /\ pc[t] = "done"
          /\ log[t][1].merged
          /\ IsSome(log[t][1].ret)
    /\ FoldRoot(0, <<1, -1, 1>>) = FoldRoot(0, <<1, 1, -1>>)

\* ------------------------------------------------------------------ C15
\* What one prepare step of either form on node n with change c gives, for
\* the Data and the uppers the node has now.
PrepareResults(n, c) ==
    UNION {{NodeApplyChange(rule, kind[n], uppers[n], ord, data[n], c),
            NodeApplyChangeRef(rule, kind[n], uppers[n], ord, data[n], c)} :
           ord \in Orders(uppers[n])}

\* C15: what a node forwards depends on its variant.  A leaf with uppers
\* invokes no merge, keeps its Data and queues the incoming change itself for
\* every upper.  An aggregating node with uppers invokes the merge on its own
\* Data, once, and queues for every upper the delta the merge returned, not
\* the incoming change, when the merge returned one, and queues nothing when
\* the merge returned none.  This holds for the prepare step of both forms on
\* every node whose guard is held, with every change, in every reachable
\* state, and for every visit made:
\* the visits queued by a visit carry what that visit forwards, and once the
\* propagation is over there is one of them for every upper.
C15_ForwardByVariant ==
    /\ \A n \in UNION {held[t] : t \in Threads}, c \in Changes : \A res \in PrepareResults(n, c) :
          LET m == CtxApplyChange(rule, data[n], c) IN
          IF kind[n] = "Leaf"
          THEN /\ ~res.merged
               /\ res.data = data[n]
               /\ uppers[n] # {} =>
                     /\ IsSome(res.out)
                     /\ Unwrap(res.out).change = c
                     /\ {Unwrap(res.out).uppers[i] : i \in DOMAIN Unwrap(res.out).uppers} = uppers[n]
                     /\ Len(Unwrap(res.out).uppers) = Cardinality(uppers[n])
          ELSE /\ res.merged
               /\ res.data = m.data
               /\ res.ret = m.ret
               /\ uppers[n] # {} =>
                     IF IsSome(m.ret)
                     THEN /\ IsSome(res.out)
                          /\ Unwrap(res.out).change = Unwrap(m.ret)
                          /\ {Unwrap(res.out).uppers[i] : i \in DOMAIN Unwrap(res.out).uppers} = uppers[n]
                          /\ Len(Unwrap(res.out).uppers) = Cardinality(uppers[n])
                     ELSE res.out = None
    /\ \A t \in Threads : \A i \in 1..Len(log[t]) :
          LET e == log[t][i] IN
          e.snap # {} =>
              /\ e.merged <=> kind[e.node] = "Aggegating"
              /\ e.queued <=> (kind[e.node] = "Leaf" \/ IsSome(e.ret))
              /\ \A j \in Children(t, i) :
                    log[t][j].in = (IF kind[e.node] = "Leaf" THEN e.in ELSE Unwrap(e.ret))
              /\ ~e.queued => Children(t, i) = {}
              /\ (e.queued /\ pc[t] = "done") =>
                    \A u \in e.snap :
                        Cardinality({j \in Children(t, i) : log[t][j].node = u}) = 1

\* A propagation of -1 from the leaf L1 under the flag merge is over: the
\* leaf passed -1 on unmerged, its upper A merged -1 and forwarded the delta
\* +1 of its merge to every upper of its own.
C15_Witness ==
    \E t \in Threads :
        /\ pc[t] = "done"
        /\ rule = "flag"
        /\ arg[t] = [node |-> "L1", change |-> -1]
        /\ ~log[t][1].merged
        /\ \E i \in Children(t, 1) :
              /\ log[t][i].node = "A"
              /\ log[t][i].in = -1
              /\ log[t][i].merged
              /\ log[t][i].ret = Some(1)
              /\ Children(t, i) # {}
              /\ \A j \in Children(t, i) : log[t][j].in = 1
        /\ \E i \in 1..Len(log[t]) :
              /\ log[t][i].merged
              /\ log[t][i].snap # {}
              /\ log[t][i].ret = None
              /\ Children(t, i) = {}

\* ------------------------------------------------------------------ C18
\* The visits of node n in the current propagation of thread t.
VisitsOf(t, n) == {i \in 1..Len(log[t]) : log[t][i].node = n}

\* C18: when two upward paths from the origin reach the same ancestor, one
\* propagation merges into that ancestor once per path on which a delta is
\* forwarded.  Every visit of a node other than the origin is queued by its
\* own forwarding visit of a node below, no two by the same one; in the
\* diamond (leaf -> {A, B}, A -> R, B -> R), once a propagation from the leaf
\* is over, the merge of R was invoked once for each of A and B whose merge
\* returned a delta: twice when both forward.
C18_OncePerPath ==
    \A t \in Threads :
        /\ \A n \in Nodes : \A i, j \in VisitsOf(t, n) :
              (i # j /\ i > 1 /\ j > 1) =>
                  /\ log[t][i].parent # log[t][j].parent
                  /\ log[t][log[t][i].parent].queued
                  /\ log[t][log[t][j].parent].queued
        /\ (FanOutDone(t) /\ uppers = Diamond /\ arg[t].node = "L1") =>
              /\ MergeCount(t, "R") =
                    Cardinality({i \in Children(t, 1) : IsSome(log[t][i].ret)})
              /\ (\A i \in Children(t, 1) : IsSome(log[t][i].ret)) =>
                    /\ MergeCount(t, "R") = 2
                    /\ \A i \in VisitsOf(t, "R") : log[t][i].merged /\ log[t][i].depth = 2
                    /\ {log[t][log[t][i].parent].node : i \in VisitsOf(t, "R")} = {"A", "B"}

\* One propagation from the leaf L1 of the diamond, the only one started, is
\* over under the add merge: A and B both forwarded and R was merged twice,
\* its Data twice the change.
C18_Witness ==
    \E t \in Threads :
        /\ FanOutDone(t)
        /\ uppers = Diamond
        /\ rule = "add"
        /\ arg[t].node = "L1"
        /\ BagCardinality(hist) = 1
        /\ MergeCount(t, "R") = 2
        /\ data["R"] = 2 * arg[t].change
        /\ data["A"] = arg[t].change
        /\ data["B"] = arg[t].change

\* ------------------------------------------------------------------ static
\* No propagation runs: the hierarchy has no links and no thread has started.
AggOff ==
    /\ kind = [n \in Nodes |-> IF n \in Leaves THEN "Leaf" ELSE "Aggegating"]
    /\ uppers = NoUppers
    /\ data = [n \in Nodes |-> 0]
    /\ rule = "add"
    /\ pc = [t \in Threads |-> "idle"]
    /\ held = [t \in Threads |-> {}]
    /\ arg = [t \in Threads |-> [node |-> "L1", change |-> 1]]
    /\ p = [t \in Threads |-> None]
    /\ stack = [t \in Threads |-> <<>>]
    /\ log = [t \in Threads |-> <<>>]
    /\ hist = EmptyBag
    /\ overlap = FALSE
    /\ mutations = 0

\* ------------------------------------------------------------------ resolver
\* Task keys ("path#ident:line") and the vectors of links the server may
\* report for a task.
Keys == {"k1", "k2", "k3"}
LinkVecs == {<<>>, <<"u1">>, <<"u1", "u2">>}

\* bincode::serialize / bincode::deserialize of a Vec of links.
Serialize(links) == <<"bincode", Len(links), links>>
Deserialize(bytes) == SubSeq(bytes[3], 1, bytes[2])

\* HashMap / partition: key -> value.
EmptyMap == [k \in {} |-> <<>>]
Insert(m, key, v) == [k \in DOMAIN m \cup {key} |-> IF k = key THEN v ELSE m[k]]

\* The task lists (distinct keys, at most MaxTasks) and the contents the
\* "links" partition may have when resolve_tasks is called.
TaskLists ==
    UNION {{ts \in [1..n -> Keys] : \A i, j \in 1..n : ts[i] = ts[j] => i = j} : n \in 0..MaxTasks}
Stores == UNION {[ks -> {Serialize(l) : l \in LinkVecs \ {<<>>}}] : ks \in SUBSET Keys}

\* What client.request may answer to textDocument/prepareCallHierarchy: no
\* result (an error response), a result that is not an array (null), an
\* empty array, a non-empty array.
PrepareResponses == {"absent", "notarray", "empty", "nonempty"}
\* ... and to callHierarchy/incomingCalls: no result, a result that does not
\* deserialize, or the incoming calls.
IncomingResponses ==
    {[result |-> r, calls |-> <<>>] : r \in {"absent", "invalid"}}
        \cup {[result |-> "calls", calls |-> l] : l \in LinkVecs}

\* resolve_tasks is called.
StaticInit ==
    /\ AggOff
    /\ tasks \in TaskLists
    /\ reindex \in BOOLEAN
    /\ items \in Stores
    /\ disk = items
    /\ out = EmptyMap
    /\ pos = 1
    /\ count = 0
    /\ response = None
    /\ sent = 0
    /\ queried = {}
    /\ rpc = "open"
    /\ cmp = <<>>

\* open_partition("links"), deleted and opened anew under reindex;
\* let mut out = HashMap::new();
OpenPartition ==
    /\ rpc = "open"
    /\ items' = IF reindex THEN EmptyMap ELSE items
    /\ out' = EmptyMap
    /\ pos' = 1
    /\ rpc' = "for"
    /\ UNCHANGED <<tasks, reindex, disk, count, response, sent, queried, cmp>>
    /\ UNCHANGED aggVars

\* for ...: if let Some(data) = items.get(&key): out.insert(key, data); continue
CacheHit ==
    /\ rpc = "for"
    /\ pos <= Len(tasks)
    /\ tasks[pos] \in DOMAIN items
    /\ out' = Insert(out, tasks[pos], Deserialize(items[tasks[pos]]))
    /\ pos' = pos + 1
    /\ UNCHANGED <<tasks, reindex, items, disk, count, response, sent, queried, rpc, cmp>>
    /\ UNCHANGED aggVars

\* for ...: the key is not in the partition;  let mut count = 0;
CacheMiss ==
    /\ rpc = "for"
    /\ pos <= Len(tasks)
    /\ tasks[pos] \notin DOMAIN items
    /\ count' = 0
    /\ sent' = 0
    /\ response' = None
    /\ rpc' = "prepare"
    /\ UNCHANGED <<tasks, reindex, items, disk, out, pos, queried, cmp>>
    /\ UNCHANGED aggVars

\* The for loop is over: the final `out`.
ReturnEnd ==
    /\ rpc = "for"
    /\ pos > Len(tasks)
    /\ rpc' = "returned"
    /\ UNCHANGED <<tasks, reindex, items, disk, out, pos, count, response, sent, queried, cmp>>
    /\ UNCHANGED aggVars

\* One iteration of the loop: client.request(prepareCallHierarchy) answered
\* with resp.  A non-empty array breaks with the value; an empty array
\* advances count; count > 5 breaks with vec![]; otherwise the thread sleeps.
Prepare(resp) ==
    /\ rpc = "prepare"
    /\ sent' = IF sent < MaxSent THEN sent + 1 ELSE sent
    /\ queried' = queried \cup {tasks[pos]}
    /\ IF resp = "nonempty"
       THEN /\ response' = Some("array")
            /\ count' = count
            /\ rpc' = "incoming"
       ELSE LET c == IF resp = "empty" THEN count + 1 ELSE count IN
            /\ count' = c
            /\ IF c > RetryLimit
               THEN response' = Some("isolated") /\ rpc' = "incoming"
               ELSE response' = response /\ rpc' = "sleep"
    /\ UNCHANGED <<tasks, reindex, items, disk, out, pos, cmp>>
    /\ UNCHANGED aggVars

\* std::thread::sleep(1s), and round the loop again.
Sleep ==
    /\ rpc = "sleep"
    /\ rpc' = "prepare"
    /\ UNCHANGED <<tasks, reindex, items, disk, out, pos, count, response, sent, queried, cmp>>
    /\ UNCHANGED aggVars

\* Incoming without the `return out` after persist: the resolved links are
\* put in `out` and the for loop goes on with the next task.
IncomingContinue(resp) ==
    /\ rpc = "incoming"
    /\ queried' = queried \cup {tasks[pos]}
    /\ IF resp.result \in {"absent", "invalid"}
       THEN /\ rpc' = "panicked"
            /\ UNCHANGED <<items, disk, out, pos>>
       ELSE /\ items' = Insert(items, tasks[pos], Serialize(resp.calls))
            /\ disk' = items'
            /\ out' = Insert(out, tasks[pos], resp.calls)
            /\ pos' = pos + 1
            /\ rpc' = "for"
    /\ UNCHANGED <<tasks, reindex, count, response, sent, cmp>>
    /\ UNCHANGED aggVars

\* client.request(callHierarchy/incomingCalls) answered with resp;
\* response.result.unwrap() and the deserialization panic on a missing or
\* malformed result; otherwise items.insert(key, data); fjall.persist();
\* return out;
Incoming(resp) ==
    /\ rpc = "incoming"
    /\ queried' = queried \cup {tasks[pos]}
    /\ IF resp.result \in {"absent", "invalid"}
       THEN /\ rpc' = "panicked"
            /\ UNCHANGED <<items, disk>>
       ELSE /\ items' = Insert(items, tasks[pos], Serialize(resp.calls))
            /\ disk' = items'
            /\ rpc' = "returned"
    /\ UNCHANGED <<tasks, reindex, out, pos, count, response, sent, cmp>>
    /\ UNCHANGED aggVars

NextStatic ==
    \/ OpenPartition
    \/ CacheHit
    \/ CacheMiss
    \/ ReturnEnd
    \/ \E resp \in PrepareResponses : Prepare(resp)
    \/ Sleep
    \/ \E resp \in IncomingResponses : Incoming(resp)

SpecStatic == StaticInit /\ [][NextStatic]_vars

\* resolve_tasks runs on: a step that is possible is taken.
FairStatic == StaticInit /\ [][NextStatic]_vars /\ WF_vars(NextStatic)

\* ------------------------------------------------------------------ C16
\* C16 as claimed: for each uncached task the textDocument/prepareCallHierarchy
\* request is sent at most 5 times, and after 5 requests that returned an
\* empty array the loop has stopped retrying.
C16_AtMostFive ==
    /\ sent <= RetryLimit
    /\ rpc \in {"prepare", "sleep"} => count < RetryLimit

\* Six requests were sent for one task, every one answered with an empty
\* array, before the loop gave the task up as isolated.
C16_Witness ==
    /\ response = Some("isolated")
    /\ sent = RetryLimit + 1
    /\ count = RetryLimit + 1
    /\ rpc = "incoming"

\* ------------------------------------------------------------------ C17
\* C17 as claimed: the prepareCallHierarchy loop terminates for every sequence
\* of server responses: once entered it ends, with a non-empty array or with
\* the isolated-task fallback.
C17_LoopTerminates ==
    (rpc = "prepare") ~> (response \in {Some("array"), Some("isolated")})

\* The loop is still going round after MaxSent requests, none of which was
\* counted: no answer had an array for a result.
C17_Witness ==
    /\ rpc = "sleep"
    /\ sent = MaxSent
    /\ count = 0
    /\ response = None

\* ------------------------------------------------------------------ C19
\* The tasks at the positions before i.
Before(i) == {tasks[j] : j \in 1..(i - 1)}

\* C19: one call of resolve_tasks queries the language server for at most one
\* task.  The tasks are visited in input order; a task whose key is in the
\* "links" partition is answered from it, deserialized, without a request;
\* requests are sent only for the first task whose key is not there; once it
\* is resolved its links are inserted and persisted and the call returns in
\* the same step, and the map returned holds the entries of the cached tasks
\* visited before it only: none for the task resolved, none for a later task.
C19_OneTaskPerCall ==
    /\ [](rpc # "open" =>
            /\ pos \in 1..(Len(tasks) + 1)
            /\ Cardinality(queried) <= 1
            /\ DOMAIN out = Before(pos)
            /\ \A k \in DOMAIN out :
                  k \in DOMAIN items /\ out[k] = Deserialize(items[k]) /\ k \notin queried
            /\ queried # {} =>
                  /\ pos <= Len(tasks)
                  /\ queried = {tasks[pos]}
                  /\ tasks[pos] \notin DOMAIN out
                  /\ \A j \in pos..Len(tasks) : tasks[j] \notin DOMAIN out
            /\ (queried # {} /\ rpc = "returned") =>
                  /\ tasks[pos] \in DOMAIN items
                  /\ disk = items
            /\ (queried # {} /\ rpc # "returned") => tasks[pos] \notin DOMAIN items
            /\ (queried = {} /\ rpc = "returned") => pos = Len(tasks) + 1)
    /\ [][/\ (rpc # "open" /\ items' # items) =>
                /\ rpc = "incoming"
                /\ rpc' = "returned"
                /\ DOMAIN items' = DOMAIN items \cup {tasks[pos]}
                /\ disk' = items'
                /\ out' = out
          /\ out' # out => (rpc = "open" \/ (rpc = "for" /\ queried = {}))
          /\ rpc = "returned" => UNCHANGED vars]_vars

\* A call with three tasks has returned: the first was answered from the
\* partition, the second was resolved and stored, and the third, although
\* its key is in the partition, was not visited: the map returned holds the
\* first only.
C19_Witness ==
    /\ rpc = "returned"
    /\ Len(tasks) = 3
    /\ pos = 2
    /\ queried = {tasks[2]}
    /\ DOMAIN out = {tasks[1]}
    /\ tasks[2] \in DOMAIN items
    /\ tasks[3] \in DOMAIN items
    /\ disk = items

\* ------------------------------------------------------------------ visitor
\* enum CallingStyle
CallingStyles == {"Once", "ZeroOrOnce", "ZeroOrMore", "OneOrMore"}

\* PartialCmp with the arm (ZeroOrOnce, ZeroOrMore) answering Less.
PartialCmpLess(self, other) ==
    IF self = other
    THEN Some("Equal")
    ELSE CASE <<self, other>> = <<"ZeroOrOnce", "OneOrMore">> -> None
           [] <<self, other>> = <<"OneOrMore", "ZeroOrOnce">> -> None
           [] <<self, other>> = <<"Once", "ZeroOrOnce">> -> Some("Greater")
           [] <<self, other>> = <<"Once", "ZeroOrMore">> -> Some("Greater")
           [] <<self, other>> = <<"Once", "OneOrMore">> -> Some("Greater")
           [] <<self, other>> = <<"ZeroOrOnce", "Once">> -> Some("Less")
           [] <<self, other>> = <<"ZeroOrOnce", "ZeroOrMore">> -> Some("Less")
           [] <<self, other>> = <<"ZeroOrMore", "Once">> -> Some("Less")
           [] <<self, other>> = <<"ZeroOrMore", "ZeroOrOnce">> -> Some("Less")
           [] <<self, other>> = <<"ZeroOrMore", "OneOrMore">> -> Some("Less")
           [] <<self, other>> = <<"OneOrMore", "Once">> -> Some("Less")
           [] <<self, other>> = <<"OneOrMore", "ZeroOrMore">> -> Some("Greater")

\* CallingStyle::partial_cmp, arm by arm: Option<Ordering>.
PartialCmp(self, other) ==
    IF self = other
    THEN Some("Equal")
    ELSE CASE <<self, other>> = <<"ZeroOrOnce", "OneOrMore">> -> None
           [] <<self, other>> = <<"OneOrMore", "ZeroOrOnce">> -> None
           [] <<self, other>> = <<"Once", "ZeroOrOnce">> -> Some("Greater")
           [] <<self, other>> = <<"Once", "ZeroOrMore">> -> Some("Greater")
           [] <<self, other>> = <<"Once", "OneOrMore">> -> Some("Greater")
           [] <<self, other>> = <<"ZeroOrOnce", "Once">> -> Some("Less")
           [] <<self, other>> = <<"ZeroOrOnce", "ZeroOrMore">> -> Some("Greater")
           [] <<self, other>> = <<"ZeroOrMore", "Once">> -> Some("Less")
           [] <<self, other>> = <<"ZeroOrMore", "ZeroOrOnce">> -> Some("Less")
           [] <<self, other>> = <<"ZeroOrMore", "OneOrMore">> -> Some("Less")
           [] <<self, other>> = <<"OneOrMore", "Once">> -> Some("Less")
           [] <<self, other>> = <<"OneOrMore", "ZeroOrMore">> -> Some("Greater")

\* A caller compares two calling styles: self.partial_cmp(&other).
Compare(a, b) ==
    /\ Len(cmp) < MaxCompares
    /\ cmp' = Append(cmp, <<a, b, PartialCmp(a, b)>>)
    /\ UNCHANGED <<tasks, reindex, items, disk, out, pos, count, response, sent, queried, rpc>>
    /\ UNCHANGED aggVars

CmpInit == AggOff /\ StaticOff
NextCmp == \E a, b \in CallingStyles : Compare(a, b)
SpecCmp == CmpInit /\ [][NextCmp]_vars

\* ------------------------------------------------------------------ C14
\* a is less than b according to partial_cmp.
Lt(a, b) == PartialCmp(a, b) = Some("Less")

\* C14: CallingStyle::partial_cmp is a partial order on the four calling
\* styles.  It answers Equal exactly for identical values; it answers Less
\* for (a, b) exactly when it answers Greater for (b, a); Less is transitive;
\* it answers None exactly for ZeroOrOnce with OneOrMore, in both argument
\* orders; and every comparison made answered one of Equal, Less, Greater or
\* None as the arms say.
C14_PartialOrder ==
    /\ \A a, b \in CallingStyles :
          /\ PartialCmp(a, b) = Some("Equal") <=> a = b
          /\ PartialCmp(a, b) = Some("Less") <=> PartialCmp(b, a) = Some("Greater")
          /\ PartialCmp(a, b) = None <=> {a, b} = {"ZeroOrOnce", "OneOrMore"}
          /\ PartialCmp(a, b) \in {None, Some("Equal"), Some("Less"), Some("Greater")}
    /\ \A a, b, c \in CallingStyles : (Lt(a, b) /\ Lt(b, c)) => Lt(a, c)
    /\ \A i \in 1..Len(cmp) :
          /\ cmp[i][3] = PartialCmp(cmp[i][1], cmp[i][2])
          /\ cmp[i][3] = None <=> {cmp[i][1], cmp[i][2]} = {"ZeroOrOnce", "OneOrMore"}

\* ZeroOrOnce was compared with OneOrMore and OneOrMore with ZeroOrOnce: both
\* comparisons answered None.
C14_Witness ==
    cmp = << <<"ZeroOrOnce", "OneOrMore", None>>, <<"OneOrMore", "ZeroOrOnce", None>> >>

====
